---- MODULE Spec2Model ----
(***************************************************************************)
(* Windhawk Service Management Utility (wsbu.py): the backup and restore   *)
(* pipelines, execute_backup_operation and execute_restore_operation, as   *)
(* the program's two buttons run them, over an installation root, the      *)
(* registry, a destination folder of archives and the temporary staging    *)
(* directory of the running operation.                                     *)
(***************************************************************************)
EXTENDS Integers, Sequences, FiniteSets, TLC

\* ------------------------------------------------------------------ bounds
\* The clock runs over the ticks 0..MaxClock, TicksPerSecond of them to a second.
MaxClock == 2
TicksPerSecond == 2
\* Operations (backups and restores) started in one session.
MaxOps == 2
\* Removals of the installation from outside the program in one session.
MaxEdits == 1

\* ------------------------------------------------------------- the universe
\* Relative paths of the files a mod directory can hold, and the file contents.
FileNames == {"mod.wh.cpp"}
Contents == {"v1", "v2"}
NoFile == "-"
\* The content of a file whose copy was cut short: the beginning of its source.
Torn == "cut short"
\* Line 25, and the key's full name as line 73 hands it to reg.exe.
WINDHAWK_REGISTRY_KEY == "SOFTWARE\\Windhawk"
full_reg_key == "HKLM\\" \o WINDHAWK_REGISTRY_KEY
\* What the registry key can hold; NoKey: the key does not exist.
RegVals == {"cfgA", "cfgB"}
NoKey == "no key"
\* What a failing reg.exe writes to standard error, as bytes: "denied", and
\* "Schl\x81ssel" (the u-umlaut of the OEM code page 850).
ErrOutputs == {<<100, 101, 110, 105, 101, 100>>,
               <<83, 99, 104, 108, 129, 115, 115, 101, 108>>}
Times == 0..(MaxClock \div TicksPerSecond)

\* A directory tree: whether the directory exists and the content of each file.
NoDir == [exists |-> FALSE, files |-> [f \in FileNames |-> NoFile]]
EmptyDir == [exists |-> TRUE, files |-> [f \in FileNames |-> NoFile]]
Trees == {NoDir} \cup [exists : {TRUE}, files : [FileNames -> Contents \cup {NoFile}]]

\* The installation root: <root>/ModsSource and <root>/Engine/Mods.
Roots == [mods : Trees, engine : Trees]
EmptyRoot == [mods |-> NoDir, engine |-> NoDir]

\* A .reg file: the key it was exported from and the key's value.
NoRegFile == [key |-> NoFile, data |-> NoFile]
\* A .reg file whose writing was cut short.
TornRegFile == [key |-> Torn, data |-> Torn]

\* A directory holding a ModsSource tree, an Engine/Mods tree and Windhawk.reg
\* (reg = NoRegFile: no Windhawk.reg): the layout of the staging directory.
NoStaging == [exists |-> FALSE, mods |-> NoDir, engine |-> NoDir, reg |-> NoRegFile]
EmptyStaging == [exists |-> TRUE, mods |-> NoDir, engine |-> NoDir, reg |-> NoRegFile]

\* A file that a restore can be given: none, a file that is no archive, or an
\* archive, zip or tar by its extension, with its entries ModsSource/,
\* Engine/Mods/ and Windhawk.reg, and in `out` the members whose names (absolute,
\* or with ..) lead to the files of <root>/ModsSource.
NoArchive ==
    [kind |-> "none", mods |-> NoDir, engine |-> NoDir, reg |-> NoRegFile, out |-> NoDir]
Corrupt ==
    [kind |-> "corrupt", mods |-> NoDir, engine |-> NoDir, reg |-> NoRegFile, out |-> NoDir]
EmptyZip ==
    [kind |-> "zip", mods |-> NoDir, engine |-> NoDir, reg |-> NoRegFile, out |-> NoDir]

\* The destination folder: whether it exists, and the file named
\* windhawk-backup_<t>.zip for each timestamp t.
NoFolder == [exists |-> FALSE, files |-> [t \in Times |-> NoArchive]]

\* ------------------------------------------------------------ log messages
\* A line of log_messages: its severity prefix, the component it names, its
\* wording, and the text it interpolates (a path, reg.exe's error text).
Line(sev, ref, msg, arg) == [sev |-> sev, ref |-> ref, msg |-> msg, arg |-> arg]

VARIABLES
    pc,            \* the statement the running operation is at; "idle", "done"
    op,            \* "backup", "restore" or "none"
    root,          \* the installation root (windhawk_root_path) on disk
    registry,      \* the value under HKLM\SOFTWARE\Windhawk, or NoKey
    dest,          \* the destination folder (backup_destination_folder) on disk
    now,           \* the wall clock, in ticks
    temp_dir,      \* the staging directory of the running operation on disk
    log_messages,  \* the running operation's list of log lines
    result,        \* how the operation ended: "success", "failure", "raised"
    timestamp,     \* the backup's timestamp (line 47)
    zip_in,        \* the file at backup_zip_path that a restore was given
    zip_from,      \* the timestamp naming that file in dest, -1 for a file elsewhere
    before,        \* history: root, registry and archive files when the operation began
    trace,         \* history: the steps the operation has run, in order
    failed_at,     \* history: the call whose error ended the operation, or "none"
    reg_exit,      \* reg.exe's exit status in this operation, -1 if it has not run
    stderr,        \* the bytes reg.exe wrote to standard error (<<>> if none)
    made,          \* history: for each archive of dest, the root its backup copied
    ops,           \* operations started in this session
    edits          \* removals of the installation from outside in this session

vars == <<pc, op, root, registry, dest, now, temp_dir, log_messages, result,
          timestamp, zip_in, zip_from, before, trace, failed_at, reg_exit, stderr,
          made, ops, edits>>

\* ---------------------------------------------------- library and tool calls
\* datetime.now().strftime('%Y%m%d_%H%M%S'): the clock cut to whole seconds.
strftime(t) == t \div TicksPerSecond

\* Line 48 and make_archive's suffix: the archive's file name for a timestamp.
archive_name(ts) == "windhawk-backup_" \o ToString(ts) \o ".zip"

\* shutil.copytree(src, dst, dirs_exist_ok=True): dst is created if missing, every
\* file of src is written over the file of that path in dst, the rest of dst stays.
copytree(src, dst) ==
    [exists |-> TRUE,
     files |-> [f \in FileNames |->
                  IF src.files[f] # NoFile THEN src.files[f] ELSE dst.files[f]]]

\* What a copytree that raises leaves behind: dst untouched (creating dst failed),
\* or dst created and each file of src not written, written, or cut short (the
\* write failed part-way). copytree goes on after a file's error and raises at
\* the end, and a file's copy can fail after its content is written, so all of
\* them can be written.
copytree_raised(src, dst) ==
    {dst} \cup
    {t \in [exists : {TRUE}, files : [FileNames -> Contents \cup {Torn, NoFile}]] :
        \A f \in FileNames :
            t.files[f] \in IF src.files[f] # NoFile
                           THEN {dst.files[f], src.files[f], Torn}
                           ELSE {dst.files[f]}}

\* A variant that drops Engine/Mods from the archive.
make_archive_flat(d) ==
    [kind |-> "zip", mods |-> d.mods, engine |-> NoDir, reg |-> d.reg, out |-> NoDir]

\* shutil.make_archive(base, 'zip', temp_dir): the archive's root is temp_dir's root.
make_archive(d) ==
    [kind |-> "zip", mods |-> d.mods, engine |-> d.engine, reg |-> d.reg, out |-> NoDir]

\* A copy of directory t as a make_archive or an unpack_archive that raises can
\* have left it: not written, written without all of its files or with a file
\* cut short, or whole.
entries_written(t) == IF t.exists THEN copytree_raised(t, NoDir) ELSE {NoDir}

\* What a make_archive that raises leaves at the archive's path: the file `old`
\* that was there (the file could not be opened), a file that is no archive, or,
\* the zip file being closed on the way out, a zip with the entries written so
\* far. The walk writes the top level first (the directories' own entries, then
\* Windhawk.reg) and then one directory after the other, and stops at the first
\* error.
make_archive_raised(d, old) ==
    {old, Corrupt}
    \cup [kind : {"zip"}, mods : {NoDir} \cup ({EmptyDir} \cap entries_written(d.mods)),
          engine : {NoDir}, reg : {NoRegFile}, out : {NoDir}]
    \cup {z \in [kind : {"zip"}, mods : entries_written(d.mods) \ ({NoDir} \ {d.mods}),
                engine : entries_written(d.engine), reg : {d.reg}, out : {NoDir}] :
             \/ z.mods \in {EmptyDir, d.mods}
             \/ z.engine \in {NoDir, d.engine}}

\* shutil.unpack_archive(path, temp_dir): the archive's entries written into temp_dir.
unpack_archive(z, d) ==
    [exists |-> TRUE,
     mods |-> IF z.mods.exists THEN copytree(z.mods, d.mods) ELSE d.mods,
     engine |-> IF z.engine.exists THEN copytree(z.engine, d.engine) ELSE d.engine,
     reg |-> IF z.reg # NoRegFile THEN z.reg ELSE d.reg]

\* The members that unpack_archive writes outside temp_dir. The format is chosen
\* by the file's extension: zipfile strips a leading / and every .. from a
\* member's name, tarfile (without an extraction filter) follows the name.
escaping(z) == IF z.kind = "tar" THEN z.out ELSE NoDir

\* <root>/ModsSource after an extraction that ran to its end.
unpacked_outside(z, t) == IF escaping(z).exists THEN copytree(escaping(z), t) ELSE t

\* The staging directory after an extraction that raised: a file that is no
\* archive leaves it as it was, an archive any part of its entries, Windhawk.reg
\* not written, written, or cut short.
unpack_archive_raised(z, d) ==
    IF z.kind \in {"zip", "tar"}
    THEN [exists : {TRUE}, mods : entries_written(z.mods),
          engine : entries_written(z.engine),
          reg : IF z.reg # NoRegFile THEN {NoRegFile, z.reg, TornRegFile}
                                     ELSE {NoRegFile}]
    ELSE {d}

\* <root>/ModsSource after an extraction that raised: any of the escaping members
\* written or cut short (none of them where tarfile refuses such names).
unpack_raised(z, t) ==
    IF escaping(z).exists THEN copytree_raised(escaping(z), t) ELSE {t}

\* reg export HKLM\SOFTWARE\Windhawk <file> /y: the file written for a key value.
reg_export(v) == [key |-> full_reg_key, data |-> v]
\* reg import <file>: the key value after the import of a file.
reg_import(f) == f.data

\* subprocess.run(..., text=True) decodes reg.exe's output strictly in the
\* locale's encoding. The bytes below 128 decode to their ASCII characters; byte
\* 129 (0x81) is undefined in code page 1252 and invalid on its own in UTF-8.
\* decode(b) is the text of a decodable b.
Decodable(b) == \A i \in 1..Len(b) : b[i] < 128
Chr(n) ==
    CASE n = 83 -> "S" [] n = 99 -> "c" [] n = 100 -> "d" [] n = 101 -> "e"
      [] n = 104 -> "h" [] n = 105 -> "i" [] n = 108 -> "l" [] n = 110 -> "n"
      [] n = 111 -> "o" [] n = 115 -> "s" [] OTHER -> "?"
RECURSIVE decode(_)
decode(b) == IF b = <<>> THEN "" ELSE Chr(Head(b)) \o decode(Tail(b))

\* e.stderr of the CalledProcessError that subprocess.run(check=True) raises on
\* Windows, as line 80 formats it: the pipe is read by a thread, and when the
\* bytes cannot be decoded the thread ends with the UnicodeDecodeError and
\* nothing is captured: e.stderr is None.
captured(b) == IF Decodable(b) THEN decode(b) ELSE "None"

\* Leaving the `with tempfile.TemporaryDirectory()` block removes the directory.
cleanup(d) == NoStaging

\* What is left of directory t when the removal of the staging directory raised.
left_behind(t) ==
    IF t.exists
    THEN {NoDir} \cup
         {u \in [exists : {TRUE}, files : [FileNames -> Contents \cup {Torn, NoFile}]] :
             \A f \in FileNames : u.files[f] \in {t.files[f], NoFile}}
    ELSE {NoDir}

\* The staging directory d after a cleanup that raised (a file of it cannot be
\* deleted, or the directory itself; ignore_cleanup_errors is not set): the
\* directory is still there, with any part of its content.
cleanup_raised(d) ==
    [exists : {TRUE}, mods : left_behind(d.mods), engine : left_behind(d.engine),
     reg : {NoRegFile, d.reg}]

\* The files a restore can be pointed at outside the destination folder: a file
\* that is no archive, zip archives of the backup's layout (made in an earlier
\* session or elsewhere), and zip and tar archives with members named to escape.
ForeignFiles ==
    {Corrupt}
    \cup [kind : {"zip"}, mods : Trees, engine : Trees,
          reg : {NoRegFile} \cup {reg_export(v) : v \in RegVals}, out : {NoDir}]
    \cup [kind : {"zip", "tar"}, mods : {NoDir}, engine : {NoDir},
          reg : {NoRegFile}, out : Trees \ {NoDir}]

NoSnapshot == [root |-> EmptyRoot, registry |-> NoKey, files |-> NoFolder.files]
Snapshot == [root |-> root, registry |-> registry, files |-> dest.files]
NotMade == [known |-> FALSE, root |-> EmptyRoot]

\* Line 80: the log line of a failed registry export carries e.stderr.
export_failed(e) == Line("ERROR", "Registry", "export failed", e)

\* ------------------------------------------------------------------- states
Init ==
    /\ pc = "idle" /\ op = "none"
    /\ root \in Roots
    /\ registry \in RegVals \cup {NoKey}
    /\ dest \in {NoFolder, [NoFolder EXCEPT !.exists = TRUE]}
    /\ now = 0
    /\ temp_dir = NoStaging
    /\ log_messages = <<>> /\ result = "none" /\ timestamp = 0
    /\ zip_in = NoArchive /\ zip_from = -1
    /\ before = NoSnapshot /\ trace = <<>> /\ failed_at = "none"
    /\ reg_exit = -1 /\ stderr = <<>>
    /\ made = [t \in Times |-> NotMade]
    /\ ops = 0 /\ edits = 0

\* The operation leaves the with-block of line 50 / 91 with the staging directory
\* as d, returning or raising (`how`) at `step`: the directory is removed on the
\* way out, or its removal raises, and then that exception is what comes out of
\* the function, in place of the return value or of the exception under way.
Leave(how, step, d) ==
    /\ pc' = "done"
    /\ \/ /\ temp_dir' = cleanup(d)
          /\ result' = how /\ failed_at' = step
       \/ /\ temp_dir' \in cleanup_raised(d)
          /\ result' = "raised" /\ failed_at' = "TemporaryDirectory"

\* --------------------------------------------------- execute_backup_operation
\* Lines 44-51: the destination folder is created if missing, the timestamp is
\* taken, the staging directory is created.
BackupBegin ==
    /\ pc = "idle" /\ ops < MaxOps
    /\ op' = "backup" /\ ops' = ops + 1
    /\ before' = Snapshot
    /\ log_messages' = <<>>
    /\ \/ /\ dest' = [dest EXCEPT !.exists = TRUE]
          /\ timestamp' = strftime(now)
          /\ temp_dir' = EmptyStaging
          /\ trace' = <<"makedirs", "TemporaryDirectory">>
          /\ pc' = "stage_mods"
          /\ UNCHANGED <<result, failed_at>>
       \/ /\ ~dest.exists                       \* os.makedirs raises
          /\ trace' = <<"makedirs">>
          /\ pc' = "done" /\ result' = "raised" /\ failed_at' = "makedirs"
          /\ UNCHANGED <<dest, timestamp, temp_dir>>
       \/ /\ dest' = [dest EXCEPT !.exists = TRUE]   \* TemporaryDirectory() raises
          /\ timestamp' = strftime(now)
          /\ trace' = <<"makedirs", "TemporaryDirectory">>
          /\ pc' = "done" /\ result' = "raised" /\ failed_at' = "TemporaryDirectory"
          /\ UNCHANGED temp_dir
    /\ UNCHANGED <<root, registry, now, zip_in, zip_from, made, edits, reg_exit, stderr>>

\* A variant that creates an empty ModsSource in the staging directory when the
\* root has none.
StageModsSource_mkdir ==
    /\ pc = "stage_mods"
    /\ trace' = Append(trace, "ModsSource")
    /\ \/ /\ root.mods.exists
          /\ temp_dir' = [temp_dir EXCEPT !.mods = copytree(root.mods, temp_dir.mods)]
          /\ log_messages' = Append(log_messages,
                 Line("Status", "ModsSource", "successfully staged for backup", ""))
          /\ pc' = "stage_engine"
          /\ UNCHANGED <<result, failed_at>>
       \/ /\ root.mods.exists                   \* shutil.copytree raises
          /\ \E t \in copytree_raised(root.mods, temp_dir.mods) :
                Leave("raised", "ModsSource", [temp_dir EXCEPT !.mods = t])
          /\ UNCHANGED log_messages
       \/ /\ ~root.mods.exists
          /\ log_messages' = Append(log_messages,
                 Line("Warning", "ModsSource", "not found at", "ModsSource"))
          /\ pc' = "stage_engine"
          /\ temp_dir' = [temp_dir EXCEPT !.mods = EmptyDir]
          /\ UNCHANGED <<result, failed_at>>
    /\ UNCHANGED <<op, root, registry, dest, now, timestamp, zip_in, zip_from,
                   before, made, ops, edits, reg_exit, stderr>>

\* Lines 54-61: ModsSource is copied into the staging directory, or a warning logged.
StageModsSource ==
    /\ pc = "stage_mods"
    /\ trace' = Append(trace, "ModsSource")
    /\ \/ /\ root.mods.exists
          /\ temp_dir' = [temp_dir EXCEPT !.mods = copytree(root.mods, temp_dir.mods)]
          /\ log_messages' = Append(log_messages,
                 Line("Status", "ModsSource", "successfully staged for backup", ""))
          /\ pc' = "stage_engine"
          /\ UNCHANGED <<result, failed_at>>
       \/ /\ root.mods.exists                   \* shutil.copytree raises
          /\ \E t \in copytree_raised(root.mods, temp_dir.mods) :
                Leave("raised", "ModsSource", [temp_dir EXCEPT !.mods = t])
          /\ UNCHANGED log_messages
       \/ /\ ~root.mods.exists
          /\ log_messages' = Append(log_messages,
                 Line("Warning", "ModsSource", "not found at", "ModsSource"))
          /\ pc' = "stage_engine"
          /\ UNCHANGED <<temp_dir, result, failed_at>>
    /\ UNCHANGED <<op, root, registry, dest, now, timestamp, zip_in, zip_from,
                   before, made, ops, edits, reg_exit, stderr>>

\* Lines 63-67: Engine/Mods is copied into the staging directory, or a warning logged.
StageEngineMods ==
    /\ pc = "stage_engine"
    /\ trace' = Append(trace, "EngineMods")
    /\ \/ /\ root.engine.exists
          /\ temp_dir' = [temp_dir EXCEPT !.engine = copytree(root.engine, temp_dir.engine)]
          /\ log_messages' = Append(log_messages,
                 Line("Status", "EngineMods", "successfully staged for backup", ""))
          /\ pc' = "export"
          /\ UNCHANGED <<result, failed_at>>
       \/ /\ root.engine.exists                 \* shutil.copytree raises
          /\ \E t \in copytree_raised(root.engine, temp_dir.engine) :
                Leave("raised", "EngineMods", [temp_dir EXCEPT !.engine = t])
          /\ UNCHANGED log_messages
       \/ /\ ~root.engine.exists
          /\ log_messages' = Append(log_messages,
                 Line("Warning", "EngineMods", "not found at", "EngineMods"))
          /\ pc' = "export"
          /\ UNCHANGED <<temp_dir, result, failed_at>>
    /\ UNCHANGED <<op, root, registry, dest, now, timestamp, zip_in, zip_from,
                   before, made, ops, edits, reg_exit, stderr>>

\* A variant without the return of line 81: the backup goes on after the error.
ExportRegistry_continuing ==
    /\ pc = "export"
    /\ trace' = Append(trace, "export")
    /\ \/ /\ registry # NoKey                   \* reg.exe exits 0
          /\ reg_exit' = 0 /\ stderr' = <<>>
          /\ temp_dir' = [temp_dir EXCEPT !.reg = reg_export(registry)]
          /\ log_messages' = Append(log_messages,
                 Line("Status", "Registry", "successfully exported", ""))
          /\ pc' = "compress"
          /\ UNCHANGED <<result, failed_at>>
       \/ \E b \in ErrOutputs :                 \* reg.exe exits 1: CalledProcessError
          /\ reg_exit' = 1 /\ stderr' = b
          /\ log_messages' = Append(log_messages, export_failed(captured(b)))
          /\ pc' = "compress" /\ failed_at' = "export"
          /\ UNCHANGED <<temp_dir, result>>
       \/ /\ reg_exit' = -1 /\ stderr' = <<>>   \* reg.exe cannot be started: OSError
          /\ Leave("raised", "export", temp_dir)
          /\ UNCHANGED log_messages
    /\ UNCHANGED <<op, root, registry, dest, now, timestamp, zip_in, zip_from,
                   before, made, ops, edits>>

\* Lines 69-81: the registry key is exported to Windhawk.reg in the staging
\* directory; a non-zero exit of reg.exe ends the backup with an error line that
\* carries e.stderr. Only CalledProcessError is caught: a reg.exe that cannot be
\* started raises out of the function.
ExportRegistry ==
    /\ pc = "export"
    /\ trace' = Append(trace, "export")
    /\ \/ /\ registry # NoKey                   \* reg.exe exits 0
          /\ reg_exit' = 0 /\ stderr' = <<>>
          /\ temp_dir' = [temp_dir EXCEPT !.reg = reg_export(registry)]
          /\ log_messages' = Append(log_messages,
                 Line("Status", "Registry", "successfully exported", ""))
          /\ pc' = "compress"
          /\ UNCHANGED <<result, failed_at>>
       \/ \E b \in ErrOutputs :                 \* reg.exe exits 1: CalledProcessError
          /\ reg_exit' = 1 /\ stderr' = b
          /\ log_messages' = Append(log_messages, export_failed(captured(b)))
          /\ Leave("failure", "export", temp_dir)
       \/ /\ reg_exit' = -1 /\ stderr' = <<>>   \* reg.exe cannot be started: OSError
          /\ Leave("raised", "export", temp_dir)
          /\ UNCHANGED log_messages
    /\ UNCHANGED <<op, root, registry, dest, now, timestamp, zip_in, zip_from,
                   before, made, ops, edits>>

\* Lines 83-87: the staging directory is compressed into
\* windhawk-backup_<timestamp>.zip in the destination folder.
Compress ==
    /\ pc = "compress"
    /\ trace' = Append(trace, "make_archive")
    /\ \/ /\ dest' = [dest EXCEPT !.files[timestamp] = make_archive(temp_dir)]
          /\ made' = [made EXCEPT ![timestamp] = [known |-> TRUE, root |-> root]]
          /\ log_messages' = Append(log_messages,
                 Line("Complete", "Archive", "Backup archive created at",
                      archive_name(timestamp)))
          /\ Leave("success", "none", temp_dir)
       \/ /\ \E z \in make_archive_raised(temp_dir, dest.files[timestamp]) :
                /\ dest' = [dest EXCEPT !.files[timestamp] = z]
                /\ made' = IF z = dest.files[timestamp] THEN made
                           ELSE [made EXCEPT ![timestamp] = NotMade]
          /\ Leave("raised", "make_archive", temp_dir)   \* shutil.make_archive raises
          /\ UNCHANGED log_messages
    /\ UNCHANGED <<op, root, registry, now, timestamp, zip_in, zip_from,
                   before, ops, edits, reg_exit, stderr>>

\* -------------------------------------------------- execute_restore_operation
\* Lines 91-92: the staging directory is created.
RestoreBegin ==
    /\ pc = "restore"
    /\ op' = "restore"
    /\ before' = Snapshot
    /\ log_messages' = <<>> /\ trace' = <<"TemporaryDirectory">>
    /\ \/ /\ temp_dir' = EmptyStaging
          /\ pc' = "extract"
          /\ UNCHANGED <<result, failed_at>>
       \/ /\ pc' = "done" /\ result' = "raised"  \* TemporaryDirectory() raises
          /\ failed_at' = "TemporaryDirectory"
          /\ UNCHANGED temp_dir
    /\ UNCHANGED <<root, registry, dest, now, timestamp, zip_in, zip_from, made,
                   ops, edits, reg_exit, stderr>>

\* Lines 94-100: the archive is unpacked into the staging directory; any
\* exception ends the restore with an extraction error. Members that escape the
\* staging directory are written where their names lead.
Extract ==
    /\ pc = "extract"
    /\ trace' = Append(trace, "unpack_archive")
    /\ \/ /\ zip_in.kind \in {"zip", "tar"}
          /\ temp_dir' = unpack_archive(zip_in, temp_dir)
          /\ root' = [root EXCEPT !.mods = unpacked_outside(zip_in, root.mods)]
          /\ log_messages' = Append(log_messages,
                 Line("Status", "Archive", "extracted successfully", ""))
          /\ pc' = "restore_mods"
          /\ UNCHANGED <<result, failed_at>>
       \/ /\ \E t \in unpack_raised(zip_in, root.mods) :          \* except Exception
                root' = [root EXCEPT !.mods = t]
          /\ log_messages' = Append(log_messages,
                 Line("ERROR", "Archive", "Failed to extract archive", ""))
          /\ \E d \in unpack_archive_raised(zip_in, temp_dir) :
                Leave("failure", "unpack_archive", d)
    /\ UNCHANGED <<op, registry, dest, now, timestamp, zip_in, zip_from,
                   before, made, ops, edits, reg_exit, stderr>>

\* Lines 103-110: ModsSource of the archive is copied over <root>/ModsSource.
RestoreModsSource ==
    /\ pc = "restore_mods"
    /\ trace' = Append(trace, "ModsSource")
    /\ \/ /\ temp_dir.mods.exists
          /\ root' = [root EXCEPT !.mods = copytree(temp_dir.mods, root.mods)]
          /\ log_messages' = Append(log_messages,
                 Line("Status", "ModsSource", "restored", ""))
          /\ pc' = "restore_engine"
          /\ UNCHANGED <<temp_dir, result, failed_at>>
       \/ /\ temp_dir.mods.exists               \* shutil.copytree raises
          /\ \E t \in copytree_raised(temp_dir.mods, root.mods) :
                root' = [root EXCEPT !.mods = t]
          /\ Leave("raised", "ModsSource", temp_dir)
          /\ UNCHANGED log_messages
       \/ /\ ~temp_dir.mods.exists
          /\ log_messages' = Append(log_messages,
                 Line("Warning", "ModsSource", "not found in backup archive", ""))
          /\ pc' = "restore_engine"
          /\ UNCHANGED <<root, temp_dir, result, failed_at>>
    /\ UNCHANGED <<op, registry, dest, now, timestamp, zip_in, zip_from,
                   before, made, ops, edits, reg_exit, stderr>>

\* Lines 112-116: Engine/Mods of the archive is copied over <root>/Engine/Mods.
RestoreEngineMods ==
    /\ pc = "restore_engine"
    /\ trace' = Append(trace, "EngineMods")
    /\ \/ /\ temp_dir.engine.exists
          /\ root' = [root EXCEPT !.engine = copytree(temp_dir.engine, root.engine)]
          /\ log_messages' = Append(log_messages,
                 Line("Status", "EngineMods", "restored", ""))
          /\ pc' = "import"
          /\ UNCHANGED <<temp_dir, result, failed_at>>
       \/ /\ temp_dir.engine.exists             \* shutil.copytree raises
          /\ \E t \in copytree_raised(temp_dir.engine, root.engine) :
                root' = [root EXCEPT !.engine = t]
          /\ Leave("raised", "EngineMods", temp_dir)
          /\ UNCHANGED log_messages
       \/ /\ ~temp_dir.engine.exists
          /\ log_messages' = Append(log_messages,
                 Line("Warning", "EngineMods", "not found in backup archive", ""))
          /\ pc' = "import"
          /\ UNCHANGED <<root, temp_dir, result, failed_at>>
    /\ UNCHANGED <<op, registry, dest, now, timestamp, zip_in, zip_from,
                   before, made, ops, edits, reg_exit, stderr>>

\* A variant that treats a missing Windhawk.reg as fatal.
ImportRegistry_required ==
    /\ pc = "import"
    /\ \/ /\ temp_dir.reg # NoRegFile           \* reg.exe exits 0
          /\ trace' = Append(trace, "import")
          /\ registry' = reg_import(temp_dir.reg)
          /\ reg_exit' = 0 /\ stderr' = <<>>
          /\ log_messages' = log_messages \o
                 <<Line("Status", "Registry", "settings imported", ""),
                   Line("Complete", "Restore", "finished successfully", "")>>
          /\ Leave("success", "none", temp_dir)
       \/ \E b \in ErrOutputs :                 \* reg.exe exits 1: CalledProcessError
          /\ temp_dir.reg # NoRegFile
          /\ trace' = Append(trace, "import")
          /\ reg_exit' = 1 /\ stderr' = b
          /\ log_messages' = Append(log_messages,
                 Line("ERROR", "Registry", "import failed", captured(b)))
          /\ Leave("failure", "import", temp_dir)
          /\ UNCHANGED registry
       \/ /\ temp_dir.reg # NoRegFile           \* reg.exe cannot be started: OSError
          /\ trace' = Append(trace, "import")
          /\ reg_exit' = -1 /\ stderr' = <<>>
          /\ Leave("raised", "import", temp_dir)
          /\ UNCHANGED <<registry, log_messages>>
       \/ /\ temp_dir.reg = NoRegFile
          /\ log_messages' = log_messages \o
                 <<Line("Warning", "Registry", "not found in backup archive", "")>>
          /\ Leave("failure", "none", temp_dir)
          /\ UNCHANGED <<registry, trace, reg_exit, stderr>>
    /\ UNCHANGED <<op, root, dest, now, timestamp, zip_in, zip_from,
                   before, made, ops, edits>>

\* A variant that puts the installation root back when the import fails.
ImportRegistry_undoing ==
    /\ pc = "import"
    /\ \/ /\ temp_dir.reg # NoRegFile           \* reg.exe exits 0
          /\ trace' = Append(trace, "import")
          /\ registry' = reg_import(temp_dir.reg)
          /\ reg_exit' = 0 /\ stderr' = <<>>
          /\ log_messages' = log_messages \o
                 <<Line("Status", "Registry", "settings imported", ""),
                   Line("Complete", "Restore", "finished successfully", "")>>
          /\ Leave("success", "none", temp_dir)
       \/ \E b \in ErrOutputs :                 \* reg.exe exits 1: CalledProcessError
          /\ temp_dir.reg # NoRegFile
          /\ trace' = Append(trace, "import")
          /\ reg_exit' = 1 /\ stderr' = b
          /\ log_messages' = Append(log_messages,
                 Line("ERROR", "Registry", "import failed", captured(b)))
          /\ Leave("failure", "import", temp_dir)
          /\ UNCHANGED registry
       \/ /\ temp_dir.reg # NoRegFile           \* reg.exe cannot be started: OSError
          /\ trace' = Append(trace, "import")
          /\ reg_exit' = -1 /\ stderr' = <<>>
          /\ Leave("raised", "import", temp_dir)
          /\ UNCHANGED <<registry, log_messages>>
       \/ /\ temp_dir.reg = NoRegFile
          /\ log_messages' = log_messages \o
                 <<Line("Warning", "Registry", "not found in backup archive", ""),
                   Line("Complete", "Restore", "finished successfully", "")>>
          /\ Leave("success", "none", temp_dir)
          /\ UNCHANGED <<registry, trace, reg_exit, stderr>>
    /\ root' = (IF result' = "failure" THEN before.root ELSE root)
    /\ UNCHANGED <<op, dest, now, timestamp, zip_in, zip_from,
                   before, made, ops, edits>>

\* Lines 119-134: Windhawk.reg of the archive is imported, if it is there; a
\* non-zero exit of reg.exe ends the restore with an error line that carries
\* e.stderr. Only CalledProcessError is caught, as in the export.
ImportRegistry ==
    /\ pc = "import"
    /\ \/ /\ temp_dir.reg # NoRegFile           \* reg.exe exits 0
          /\ trace' = Append(trace, "import")
          /\ registry' = reg_import(temp_dir.reg)
          /\ reg_exit' = 0 /\ stderr' = <<>>
          /\ log_messages' = log_messages \o
                 <<Line("Status", "Registry", "settings imported", ""),
                   Line("Complete", "Restore", "finished successfully", "")>>
          /\ Leave("success", "none", temp_dir)
       \/ \E b \in ErrOutputs :                 \* reg.exe exits 1: CalledProcessError
          /\ temp_dir.reg # NoRegFile
          /\ trace' = Append(trace, "import")
          /\ reg_exit' = 1 /\ stderr' = b
          /\ log_messages' = Append(log_messages,
                 Line("ERROR", "Registry", "import failed", captured(b)))
          /\ Leave("failure", "import", temp_dir)
          /\ UNCHANGED registry
       \/ /\ temp_dir.reg # NoRegFile           \* reg.exe cannot be started: OSError
          /\ trace' = Append(trace, "import")
          /\ reg_exit' = -1 /\ stderr' = <<>>
          /\ Leave("raised", "import", temp_dir)
          /\ UNCHANGED <<registry, log_messages>>
       \/ /\ temp_dir.reg = NoRegFile
          /\ log_messages' = log_messages \o
                 <<Line("Warning", "Registry", "not found in backup archive", ""),
                   Line("Complete", "Restore", "finished successfully", "")>>
          /\ Leave("success", "none", temp_dir)
          /\ UNCHANGED <<registry, trace, reg_exit, stderr>>
    /\ UNCHANGED <<op, root, dest, now, timestamp, zip_in, zip_from,
                   before, made, ops, edits>>

\* ------------------------------------------------------------ the surroundings
\* run_restore, lines 243-254: the destination folder is created if missing, then
\* the file dialog is shown; the user picks a file of the folder or a file from
\* elsewhere, or cancels the dialog, and then nothing else happens.
run_restore ==
    /\ pc = "idle"
    /\ dest' = [dest EXCEPT !.exists = TRUE]
    /\ \/ /\ ops < MaxOps
          /\ \/ \E t \in Times :
                   /\ dest.files[t].kind # "none"
                   /\ zip_in' = dest.files[t] /\ zip_from' = t
             \/ \E z \in ForeignFiles :
                   /\ zip_in' = z /\ zip_from' = -1
          /\ ops' = ops + 1
          /\ pc' = "restore"
       \/ UNCHANGED <<zip_in, zip_from, ops, pc>>     \* backup_file is empty
    /\ UNCHANGED <<op, root, registry, now, temp_dir, log_messages, result, timestamp,
                   before, trace, failed_at, made, edits, reg_exit, stderr>>

\* run_backup / run_restore, lines 227-233 and 254-260: the outcome is shown in a
\* message box, or the exception ends the button's callback; by the time the
\* program waits for the next action, the clock has moved on, by a tick or more.
\* temp_dir follows the staging directory of one operation: a directory that its
\* cleanup left behind stays on disk under its own name, and no later operation
\* uses it.
Dismiss ==
    /\ pc = "done" /\ now < MaxClock
    /\ now' \in (now + 1)..MaxClock
    /\ pc' = "idle" /\ op' = "none"
    /\ log_messages' = <<>> /\ result' = "none" /\ timestamp' = 0
    /\ zip_in' = NoArchive /\ zip_from' = -1
    /\ before' = NoSnapshot /\ trace' = <<>> /\ failed_at' = "none"
    /\ reg_exit' = -1 /\ stderr' = <<>>
    /\ temp_dir' = NoStaging
    /\ UNCHANGED <<root, registry, dest, made, ops, edits>>

\* The installation is maintained from outside: between two operations of the
\* program it can be removed, ModsSource and Engine/Mods with it.
ExternalEdit ==
    /\ pc = "idle" /\ ops > 0 /\ edits < MaxEdits
    /\ root # EmptyRoot
    /\ root' = EmptyRoot
    /\ edits' = edits + 1
    /\ UNCHANGED <<pc, op, registry, dest, now, temp_dir, log_messages, result,
                   timestamp, zip_in, zip_from, before, trace, failed_at, made, ops,
                   reg_exit, stderr>>

Next ==
    \/ BackupBegin \/ StageModsSource \/ StageEngineMods \/ ExportRegistry \/ Compress
    \/ run_restore \/ RestoreBegin \/ Extract \/ RestoreModsSource \/ RestoreEngineMods
    \/ ImportRegistry \/ Dismiss \/ ExternalEdit

Spec == Init /\ [][Next]_vars

\* ------------------------------------------------------------------- claims
Components == {"mods", "engine"}
Ended == pc \in {"idle", "restore", "done"}
\* The files of component c of a root, staging directory or archive x.
FilesOf(x, c) == IF c = "mods" THEN x.mods.files ELSE x.engine.files
\* Both directory copies of the restore have run to their end: the log has the
\* line of the second.
CopiesDone ==
    op = "restore" /\ \E i \in 1..Len(log_messages) : log_messages[i].ref = "EngineMods"
\* The operation has ended and the removal of its staging directory raised.
CleanupRaised ==
    pc = "done" /\ failed_at = "TemporaryDirectory" /\ trace[Len(trace)] # "TemporaryDirectory"

\* C1: when an operation has ended (success, failure or a propagated error) its
\* staging directory no longer exists, and an operation never starts on a staging
\* directory that was already there: when it begins no staging directory exists,
\* and the one it creates is empty.
C1_StagingReleased ==
    /\ [](Ended => ~temp_dir.exists)
    /\ [][(op = "none" /\ op' # "none")
            => (~temp_dir.exists /\ temp_dir' \in {EmptyStaging, NoStaging})]_vars

\* C2: when reg export exits non-zero the backup returns failure, its log holds
\* the error text that reg.exe wrote, the archive files of the destination folder
\* are those from before the call, and no staging directory remains.
C2_ExportFailure ==
    (pc = "done" /\ op = "backup" /\ reg_exit = 1) =>
        /\ result = "failure"
        /\ Decodable(stderr)
        /\ \E i \in 1..Len(log_messages) :
              log_messages[i].sev = "ERROR" /\ log_messages[i].arg = decode(stderr)
        /\ dest.files = before.files
        /\ ~temp_dir.exists

\* C3: when the archive cannot be extracted (the restore ends at the extraction)
\* the restore returns failure, the log records an extraction error, and the
\* installation root and the registry are as they were before the call.
C3_ExtractFailure ==
    (pc = "done" /\ op = "restore" /\ trace[Len(trace)] = "unpack_archive") =>
        /\ result = "failure"
        /\ \E i \in 1..Len(log_messages) :
              /\ log_messages[i].sev = "ERROR"
              /\ log_messages[i].msg = "Failed to extract archive"
        /\ root = before.root
        /\ registry = before.registry

C5_OverwriteMerge ==
    op = "restore" =>
        \A c \in Components :
            /\ \A f \in FileNames :
                  /\ (FilesOf(before.root, c)[f] # NoFile /\ FilesOf(zip_in, c)[f] = NoFile)
                        => FilesOf(root, c)[f] = FilesOf(before.root, c)[f]
                  /\ FilesOf(before.root, c)[f] # NoFile => FilesOf(root, c)[f] # NoFile
                  /\ (CopiesDone /\ FilesOf(zip_in, c)[f] # NoFile)
                        => FilesOf(root, c)[f] = FilesOf(zip_in, c)[f]
            /\ (IF c = "mods" THEN before.root.mods.exists => root.mods.exists
                              ELSE before.root.engine.exists => root.engine.exists)

\* The lines of the log whose severity is sev and that name component ref.
LinesOf(sev, ref) ==
    {i \in 1..Len(log_messages) :
        log_messages[i].sev = sev /\ log_messages[i].ref = ref}
Warnings == {i \in 1..Len(log_messages) : log_messages[i].sev = "Warning"}
LastLine == log_messages[Len(log_messages)]
IsPrefix(s, t) == Len(s) <= Len(t) /\ s = SubSeq(t, 1, Len(s))
BackupSteps ==
    <<"makedirs", "TemporaryDirectory", "ModsSource", "EngineMods", "export",
      "make_archive">>
RestoreSteps ==
    <<"TemporaryDirectory", "unpack_archive", "ModsSource", "EngineMods", "import">>
BackupRefs == <<"ModsSource", "EngineMods", "Registry", "Archive">>
RestoreRefs == <<"Archive", "ModsSource", "EngineMods", "Registry", "Restore">>
\* The steps whose failure the code catches and turns into a returned failure.
Caught == {"export", "unpack_archive", "import"}
\* The components missing from a root, staging directory or archive x.
Missing(x) ==
    {c \in Components : IF c = "mods" THEN ~x.mods.exists ELSE ~x.engine.exists}

\* C6: a backup that succeeds on a root without ModsSource makes an archive with
\* no ModsSource entry, and its log holds exactly one warning naming ModsSource.
C6_ModsSourceAbsent ==
    (pc = "done" /\ op = "backup" /\ result = "success"
        /\ ~before.root.mods.exists) =>
        /\ dest.files[timestamp].kind = "zip"
        /\ ~dest.files[timestamp].mods.exists
        /\ Cardinality(LinesOf("Warning", "ModsSource")) = 1

\* A backup of a root that has Engine/Mods with a file, and no ModsSource.
C6_Witness ==
    /\ pc = "done" /\ op = "backup" /\ result = "success"
    /\ ~before.root.mods.exists /\ before.root.engine.exists
    /\ \E f \in FileNames : dest.files[timestamp].engine.files[f] # NoFile

\* C7: a missing optional component never makes an operation fail. Of the
\* operations that return: a backup returns failure exactly when the registry
\* export failed, and otherwise success with the archive at
\* windhawk-backup_<timestamp>.zip and its path in the log; a restore returns
\* failure exactly when the extraction or the registry import failed, and imports
\* only when the archive holds Windhawk.reg; each missing component adds one
\* warning and every later step still runs.
C7_OptionalComponents ==
    /\ (pc = "done" /\ op = "backup" /\ result # "raised") =>
          /\ result = "failure" <=> failed_at = "export"
          /\ result = "success" =>
                /\ trace = BackupSteps
                /\ dest.files[timestamp].kind = "zip"
                /\ LastLine.sev = "Complete"
                /\ LastLine.arg = archive_name(timestamp)
          /\ Cardinality(Warnings) = Cardinality(Missing(before.root))
    /\ (pc = "done" /\ op = "restore" /\ result # "raised") =>
          /\ result = "failure" <=> failed_at \in {"unpack_archive", "import"}
          /\ result = "success" =>
                /\ IsPrefix(SubSeq(RestoreSteps, 1, 4), trace)
                /\ ("import" = trace[Len(trace)]) <=> (zip_in.reg # NoRegFile)
                /\ Cardinality(Warnings) = Cardinality(Missing(zip_in))
                      + (IF zip_in.reg = NoRegFile THEN 1 ELSE 0)

\* A restore of an archive that holds none of the three components has succeeded.
C7_Witness ==
    /\ pc = "done" /\ op = "restore" /\ result = "success"
    /\ zip_in = EmptyZip
    /\ Cardinality(Warnings) = 3

\* C8: an archive of the destination folder is never changed, replaced or deleted
\* by a later step of the program, and a backup that writes its archive (its
\* completion line is logged) writes a file name that no archive of the folder
\* had.
C8_ArchiveImmutable ==
    [][/\ \A t \in Times :
            (dest.files[t].kind = "zip" /\ made[t].known)
                => dest'.files[t] = dest.files[t]
       /\ (pc = "compress" /\ Len(log_messages') > Len(log_messages))
            => dest.files[timestamp].kind # "zip"]_vars

\* C9 as stated: the steps run in a fixed order, no step runs after a failed one,
\* and every failure, a filesystem error of a copy or of the compression included,
\* ends the operation with failure reported and the accumulated log followed by
\* the error.
C9_AbortWithLog ==
    op # "none" =>
        /\ IsPrefix(trace, IF op = "backup" THEN BackupSteps ELSE RestoreSteps)
        /\ failed_at # "none" => pc = "done"
        /\ (pc = "done" /\ failed_at # "none") =>
              /\ result = "failure"
              /\ Len(log_messages) >= 1 /\ LastLine.sev = "ERROR"

\* C9 as amended: the steps run in a fixed order and no step runs after a failed
\* one; a failure that the code catches (reg.exe exiting non-zero, an exception of
\* the extraction) ends the operation with failure returned and the log of the
\* completed steps, in step order, followed by the error line, provided that the
\* staging directory can be removed; every other failure (a filesystem error of
\* makedirs, of creating the staging directory, of a copy or of the compression,
\* a reg.exe that cannot be started) propagates as an exception, and so does a
\* failure to remove the staging directory, whatever the operation had reached:
\* then neither a result nor a log is returned.
C9_AbortAtFailedStep ==
    op # "none" =>
        /\ IsPrefix(trace, IF op = "backup" THEN BackupSteps ELSE RestoreSteps)
        /\ failed_at # "none" =>
              /\ pc = "done"
              /\ CleanupRaised \/ trace[Len(trace)] = failed_at
        /\ \A i \in 1..Len(log_messages) :
              /\ log_messages[i].ref =
                    (IF op = "backup" THEN BackupRefs ELSE RestoreRefs)[i]
              /\ log_messages[i].sev = "ERROR" =>
                    /\ i = Len(log_messages)
                    /\ trace[Len(trace)] \in Caught
                    /\ result = "failure" \/ CleanupRaised
        /\ (pc = "done" /\ result = "failure") =>
              /\ LastLine.sev = "ERROR"
              /\ Len(log_messages) = Len(trace) - (IF op = "backup" THEN 2 ELSE 1)
        /\ pc = "done" =>
              /\ result = "success" <=> failed_at = "none"
              /\ result = "failure" <=>
                    \/ failed_at = "unpack_archive"
                    \/ failed_at \in {"export", "import"} /\ reg_exit = 1
              /\ result \in {"success", "failure", "raised"}
              /\ temp_dir.exists <=> CleanupRaised

\* A restore was aborted by a filesystem error of its second copy, after the
\* first copy had run.
C9_Witness ==
    /\ pc = "done" /\ op = "restore" /\ result = "raised"
    /\ failed_at = "EngineMods"
    /\ trace = SubSeq(RestoreSteps, 1, 4)
    /\ Len(log_messages) = 2

\* C10: the restore imports the registry after both copies and does not roll
\* back: when it returns failure because reg import failed, every ModsSource and
\* Engine/Mods file of the archive is in the installation root, and the registry
\* is the one from before the call.
C10_NoRollback ==
    (pc = "done" /\ op = "restore" /\ result = "failure" /\ failed_at = "import") =>
        /\ reg_exit = 1
        /\ trace = RestoreSteps
        /\ \A c \in Components : \A f \in FileNames :
              FilesOf(zip_in, c)[f] # NoFile => FilesOf(root, c)[f] = FilesOf(zip_in, c)[f]
        /\ \A c \in Components \ Missing(zip_in) : c \notin Missing(root)
        /\ registry = before.registry

\* A restore failed at the import and has left the installation root changed and
\* the registry with another value than the archive's.
C10_Witness ==
    /\ pc = "done" /\ op = "restore" /\ result = "failure" /\ failed_at = "import"
    /\ root # before.root
    /\ \E f \in FileNames : zip_in.mods.files[f] # NoFile
    /\ registry # NoKey /\ registry # reg_import(zip_in.reg)

====
